---------------------------- MODULE Spec2Model ----------------------------
(***************************************************************************)
(* ShareLink: the in-memory share registry of the backend (models/Share,   *)
(* routes/share, routes/upload), its expiry sweeper and its deferred       *)
(* post-limit deletion, together with the uploads directory.               *)
(*                                                                         *)
(* JavaScript strings are sequences of one-character strings, so that the  *)
(* regular expressions, parseInt and the numeric coercions of the source   *)
(* are computed, not assumed.  JavaScript values are tagged records.       *)
(***************************************************************************)
EXTENDS Integers, Sequences, FiniteSets, TLC

(***************************************************************************)
(* Bounds of the model.                                                    *)
(***************************************************************************)
GateShares == 1     \* createShare calls in one behaviour of Spec
StoreShares == 2    \* createShare calls in one behaviour of SpecStore
MaxTicks == 1       \* clock advances in one behaviour
MaxCount == 2       \* highest download counter the gate is driven to
MaxOrphans == 0     \* files no record owns when a rejected upload begins
TickMs == 60001     \* milliseconds of one clock advance
StartMs == 60000    \* Date.now() at start
LiveShares == 1     \* createShare calls in one behaviour of SpecLive
MaxZipFiles == 3    \* files of the share of SpecZip
FsShares == 1       \* createShare calls in one behaviour of SpecFs
StuckRand == 7      \* multer's random number in the names of SpecFs
ServerShares == 1   \* shares.set calls in one behaviour of SpecServer

(***************************************************************************)
(* JavaScript values.                                                      *)
(***************************************************************************)
Undefined == [t |-> "undefined"]
Null == [t |-> "null"]
NaN == [t |-> "nan"]
Num(n) == [t |-> "num", v |-> n]
Str(s) == [t |-> "str", v |-> s]

\* ToBoolean: undefined, null, NaN, 0 and "" are falsy.
Truthy(x) ==
  CASE x.t = "undefined" -> FALSE
    [] x.t = "null" -> FALSE
    [] x.t = "nan" -> FALSE
    [] x.t = "num" -> x.v # 0
    [] x.t = "str" -> x.v # << >>

\* a || b
Or(a, b) == IF Truthy(a) THEN a ELSE b

Digits == {"0", "1", "2", "3", "4", "5", "6", "7", "8", "9"}
Letters == {"a", "b", "k", "x", "A", "Z"}
SlugChars == Digits \cup Letters \cup {"_", "-"}

DigitVal(c) ==
  CASE c = "0" -> 0 [] c = "1" -> 1 [] c = "2" -> 2 [] c = "3" -> 3
    [] c = "4" -> 4 [] c = "5" -> 5 [] c = "6" -> 6 [] c = "7" -> 7
    [] c = "8" -> 8 [] c = "9" -> 9

\* Length of the longest prefix of s made of digits.
RECURSIVE DigitPrefixLen(_)
DigitPrefixLen(s) ==
  IF s = << >> \/ Head(s) \notin Digits THEN 0 ELSE 1 + DigitPrefixLen(Tail(s))

\* Value of a sequence of digits, most significant first.
RECURSIVE DigitsValue(_, _)
DigitsValue(s, acc) ==
  IF s = << >> THEN acc ELSE DigitsValue(Tail(s), acc * 10 + DigitVal(Head(s)))

AllZero(s) == \A i \in 1..Len(s) : s[i] = "0"

\* parseInt(x) in radix 10: an optional sign, then the longest run of
\* digits; NaN when there is none.  Whatever follows the digits is ignored.
parseInt(x) ==
  IF x.t = "num" THEN x
  ELSE IF x.t # "str" THEN NaN
  ELSE LET neg == x.v # << >> /\ Head(x.v) = "-"
           body == IF neg THEN Tail(x.v) ELSE x.v
           n == DigitPrefixLen(body)
           mag == DigitsValue(SubSeq(body, 1, n), 0)
       IN IF n = 0 THEN NaN ELSE Num(IF neg THEN 0 - mag ELSE mag)

\* ToNumber(x) for a string: the whole string must be a decimal literal
\* (sign, digits, optional fraction); "" is 0; anything else is NaN.  The
\* value is kept exactly as sign, integer part and "has a non-zero fraction".
ToNumber(x) ==
  IF x.t = "num" THEN [nan |-> FALSE, neg |-> x.v < 0,
                       ip |-> IF x.v < 0 THEN 0 - x.v ELSE x.v, frac |-> FALSE]
  ELSE IF x.t = "null" THEN [nan |-> FALSE, neg |-> FALSE, ip |-> 0, frac |-> FALSE]
  ELSE IF x.t # "str" THEN [nan |-> TRUE, neg |-> FALSE, ip |-> 0, frac |-> FALSE]
  ELSE LET neg == x.v # << >> /\ Head(x.v) = "-"
           body == IF neg THEN Tail(x.v) ELSE x.v
           n == DigitPrefixLen(body)
           rest == SubSeq(body, n + 1, Len(body))
           hasDot == rest # << >> /\ Head(rest) = "."
           fr == IF hasDot THEN Tail(rest) ELSE << >>
           wellFormed == /\ (rest = << >> \/ hasDot)
                         /\ DigitPrefixLen(fr) = Len(fr)
                         /\ (n > 0 \/ Len(fr) > 0)
       IN IF x.v = << >>
          THEN [nan |-> FALSE, neg |-> FALSE, ip |-> 0, frac |-> FALSE]
          ELSE IF ~wellFormed
          THEN [nan |-> TRUE, neg |-> FALSE, ip |-> 0, frac |-> FALSE]
          ELSE [nan |-> FALSE, neg |-> neg,
                ip |-> DigitsValue(SubSeq(body, 1, n), 0),
                frac |-> ~AllZero(fr)]

\* isNaN(x)
isNaN(x) == ToNumber(x).nan

\* a < b and a > b for an integer-or-NaN left operand and an integer b.
NumLess(a, b) == a.t = "num" /\ a.v < b
NumGreater(a, b) == a.t = "num" /\ a.v > b

\* n >= x for an integer n and any value x (x is coerced by ToNumber);
\* false when x is NaN.
GreaterEq(n, x) ==
  LET d == ToNumber(x) IN
  /\ ~d.nan
  /\ IF d.neg THEN n >= 0 - d.ip
     ELSE n > d.ip \/ (n = d.ip /\ ~d.frac)

\* n <= x for an integer n and any value x (x is coerced by ToNumber);
\* false when x is NaN.
LessEq(n, x) ==
  LET d == ToNumber(x) IN
  /\ ~d.nan
  /\ IF d.neg THEN n <= 0 - d.ip /\ (d.frac => n < 0 - d.ip)
     ELSE n <= d.ip

(***************************************************************************)
(* Inputs of the requests.                                                 *)
(***************************************************************************)
Pin1234 == Str(<<"1", "2", "3", "4">>)
Pin0000 == Str(<<"0", "0", "0", "0">>)
Pin12 == Str(<<"1", "2">>)
RequestPins == {Undefined, Pin1234, Pin0000}
NoPins == {Undefined}
CustomSlugs == {Undefined, Str(<<"a">>), Str(<<"a", "!">>)}
\* Outcomes of Math.random().toString(36).substring(2, 8) the model draws.
Tokens == {<<"a">>, <<"k">>}
\* The draw of Math.round(Math.random() * 1E9) in an upload request that
\* fails its validation.
RejectedRand == 0
\* Slugs a request may address.
RequestSlugs == Tokens

Form(pin, ttl, maxDownloads) == [pin |-> pin, ttl |-> ttl, maxDownloads |-> maxDownloads]

\* The pin, ttl and maxDownloads fields of the upload forms submitted to a
\* store that holds one share.
GateForms ==
  {Form(Undefined, Undefined, Undefined),
   Form(Pin1234, Undefined, Undefined),
   Form(Undefined, Str(<<"1">>), Undefined),
   Form(Pin1234, Str(<<"1">>), Undefined),
   Form(Undefined, Undefined, Str(<<"1">>)),
   Form(Pin1234, Undefined, Str(<<"1">>)),
   Form(Undefined, Undefined, Str(<<"2">>)),
   Form(Undefined, Undefined, Str(<<"1", ".", "5">>)),
   Form(Undefined, Str(<<"1", ".", "5">>), Undefined),
   Form(Undefined, Str(<<"0">>), Undefined),
   Form(Undefined, Undefined, Str(<<"0">>)),
   Form(Pin0000, Undefined, Undefined),
   Form(Pin12, Undefined, Undefined)}

\* The forms submitted while the store may hold two shares at once.
StoreForms ==
  {Form(Undefined, Str(<<"1">>), Undefined),
   Form(Undefined, Undefined, Str(<<"1">>))}

\* The forms submitted when the timers are scheduled fairly.
LiveForms ==
  {Form(Undefined, Str(<<"1">>), Undefined),
   Form(Undefined, Undefined, Str(<<"1">>)),
   Form(Undefined, Undefined, Str(<<"2">>)),
   Form(Undefined, Str(<<"1">>), Str(<<"1">>))}

\* The forms submitted when a file cannot be unlinked.
FsForms ==
  {Form(Undefined, Undefined, Undefined),
   Form(Undefined, Str(<<"1">>), Undefined),
   Form(Undefined, Undefined, Str(<<"1">>))}

VARIABLES
  shares,     \* the Map slug -> share record
  now,        \* Date.now()
  disk,       \* paths that exist in the uploads directory
  timers,     \* pending setTimeout(() => deleteShare(slug), 1000), in order
  inflight,   \* upload handlers suspended at await QRCode.toDataURL
  nextId,     \* records created so far (uuidv4 draws)
  res,        \* the last request and the response it got
  passed,     \* id of a stored record -> download requests that passed the gate
  lapsed,     \* the records that Date.now() has passed the expiresAt of while
              \* they were stored
  spent       \* the records whose download counter has reached maxDownloads,
              \* each with the code the next download request for it got

vars == <<shares, now, disk, timers, inflight, nextId, res, passed, lapsed, spent>>

(***************************************************************************)
(* models/Share                                                            *)
(***************************************************************************)
Salt == <<"sharelink_salt">>

\* crypto.createHash('sha256').update(s).digest('hex'): one digest per input.
Sha256(s) == Str(<<"sha256">> \o s)

\* A hashPin that digests the salt alone.
hashPinSaltOnly(pin) == Sha256(Salt)

hashPin(pin) == Sha256(pin.v \o Salt)

\* /^\d{4}$/.test(pin)
validatePin(pin) ==
  /\ pin.t = "str"
  /\ Len(pin.v) = 4
  /\ \A i \in 1..Len(pin.v) : pin.v[i] \in Digits

\* /^[a-zA-Z0-9_-]+$/.test(customSlug)
SlugPattern(s) == Len(s) > 0 /\ \A i \in 1..Len(s) : s[i] \in SlugChars

\* A generateSlug that returns a well-formed customSlug without asking
\* shares.has(customSlug).
generateSlugUnchecked(m, customSlug) ==
  IF Truthy(customSlug) /\ SlugPattern(customSlug.v)
  THEN {customSlug.v}
  ELSE Tokens \ DOMAIN m

\* A generateSlug whose loop does not ask shares.has(slug).
generateSlugNoRetry(m, customSlug) ==
  IF /\ Truthy(customSlug)
     /\ customSlug.v \notin DOMAIN m
     /\ SlugPattern(customSlug.v)
  THEN {customSlug.v}
  ELSE Tokens

\* generateSlug(customSlug): the set of slugs the call may return in store m.
generateSlug(m, customSlug) ==
  IF /\ Truthy(customSlug)
     /\ customSlug.v \notin DOMAIN m
     /\ SlugPattern(customSlug.v)
  THEN {customSlug.v}
  ELSE Tokens \ DOMAIN m

\* A createShare whose record starts with the counter at the number of
\* records created before it.
NewShareCounted(id, shareData, t) ==
  [id |-> id,
   files |-> shareData.files,
   createdAt |-> t,
   downloads |-> id - 1,
   maxDownloads |-> Or(shareData.maxDownloads, Null),
   pin |-> IF Truthy(shareData.pin) THEN hashPin(shareData.pin) ELSE Null,
   expiresAt |-> IF Truthy(shareData.ttl)
                 THEN LET p == parseInt(shareData.ttl) IN
                      IF p.t = "num" THEN Num(t + p.v * 60 * 1000) ELSE NaN
                 ELSE Null]

\* The record createShare builds.
NewShare(id, shareData, t) ==
  [id |-> id,
   files |-> shareData.files,
   createdAt |-> t,
   downloads |-> 0,
   maxDownloads |-> Or(shareData.maxDownloads, Null),
   pin |-> IF Truthy(shareData.pin) THEN hashPin(shareData.pin) ELSE Null,
   expiresAt |-> IF Truthy(shareData.ttl)
                 THEN LET p == parseInt(shareData.ttl) IN
                      IF p.t = "num" THEN Num(t + p.v * 60 * 1000) ELSE NaN
                 ELSE Null]

\* shares.set(slug, share)
MapSet(m, slug, share) ==
  [s \in DOMAIN m \cup {slug} |-> IF s = slug THEN share ELSE m[s]]

\* shares.delete(slug)
MapDelete(m, slug) == [s \in DOMAIN m \ {slug} |-> m[s]]

\* An expiry test with the comparison turned round.
ExpiredReversed(share, t) ==
  /\ Truthy(share.expiresAt)
  /\ share.expiresAt.t = "num"
  /\ t < share.expiresAt.v

\* An expiry test that grants one more minute.
ExpiredWithGrace(share, t) ==
  /\ Truthy(share.expiresAt)
  /\ share.expiresAt.t = "num"
  /\ t > share.expiresAt.v + 60000

\* share.expiresAt && now > share.expiresAt
Expired(share, t) ==
  /\ Truthy(share.expiresAt)
  /\ share.expiresAt.t = "num"
  /\ t > share.expiresAt.v

\* A limit test that is off by one: share.downloads > share.maxDownloads.
LimitReachedStrict(share) ==
  /\ Truthy(share.maxDownloads)
  /\ ~ToNumber(share.maxDownloads).nan
  /\ ~LessEq(share.downloads, share.maxDownloads)

\* share.maxDownloads && share.downloads >= share.maxDownloads
LimitReached(share) ==
  /\ Truthy(share.maxDownloads)
  /\ GreaterEq(share.downloads, share.maxDownloads)

Paths(share) == {share.files[i].path : i \in 1..Len(share.files)}

\* fs.unlinkSync(path) throws for a file that exists: the operating system
\* refuses (EPERM, EBUSY).  Which files those are is a fact of the
\* environment; here they are the files named g of the uploads whose names
\* carry StuckRand.
Stuck(path) == path.rnd = StuckRand /\ path.name = <<"g">>

\* The directory after a try { fs.unlinkSync(path) } catch {} for each of
\* the paths.
Unlink(d, paths) == d \ {p \in paths : ~Stuck(p)}

\* A deletion that unlinks the first file of the share only.
UnlinkFirst(d, share) ==
  IF Len(share.files) = 0 THEN d ELSE d \ {share.files[1].path}

\* fs.unlinkSync of every file of the share; a missing file is swallowed.
UnlinkAll(d, share) == Unlink(d, Paths(share))

\* getShare(slug): undefined when the Map has no such key.
getShare(m, slug) == IF slug \in DOMAIN m THEN m[slug] ELSE Undefined

\* The summary getAllShares builds of the record under slug.
Summary(slug, share) ==
  [slug |-> slug,
   filesCount |-> Len(share.files),
   createdAt |-> share.createdAt,
   downloads |-> share.downloads,
   hasPin |-> Truthy(share.pin),
   expiresAt |-> share.expiresAt,
   maxDownloads |-> share.maxDownloads]

\* A getAllShares that leaves out the records whose expiry has passed.
getAllSharesLive(m, t) ==
  {Summary(s, m[s]) : s \in {x \in DOMAIN m : ~Expired(m[x], t)}}

\* getAllShares(): one summary for each entry of the Map; the clock is not
\* consulted.
getAllShares(m, t) == {Summary(s, m[s]) : s \in DOMAIN m}

\* A deleteShare without try/catch: the first unlinkSync that throws ends
\* it before shares.delete(slug).
deleteShareFailFast(m, d, slug) ==
  IF slug \notin DOMAIN m
  THEN [shares |-> m, disk |-> d, ret |-> FALSE]
  ELSE IF \E p \in Paths(m[slug]) \cap d : Stuck(p)
  THEN [shares |-> m, disk |-> d, ret |-> FALSE]
  ELSE [shares |-> MapDelete(m, slug), disk |-> d \ Paths(m[slug]), ret |-> TRUE]

\* A deleteShare that returns true whether or not it found a record.
deleteShareAlwaysTrue(m, d, slug) ==
  IF slug \notin DOMAIN m
  THEN [shares |-> m, disk |-> d, ret |-> TRUE]
  ELSE [shares |-> MapDelete(m, slug), disk |-> UnlinkAll(d, m[slug]), ret |-> TRUE]

\* deleteShare(slug): the store and the directory afterwards, and the value
\* it returns.
deleteShare(m, d, slug) ==
  IF slug \notin DOMAIN m
  THEN [shares |-> m, disk |-> d, ret |-> FALSE]
  ELSE [shares |-> MapDelete(m, slug), disk |-> UnlinkAll(d, m[slug]), ret |-> TRUE]

\* A validateSharePin that lets a request without a PIN through.
validateSharePinLax(m, slug, inputPin) ==
  IF slug \notin DOMAIN m THEN FALSE
  ELSE IF ~Truthy(m[slug].pin) THEN TRUE
  ELSE IF ~Truthy(inputPin) THEN TRUE
  ELSE Sha256(inputPin.v \o Salt) = m[slug].pin

\* validateSharePin(slug, inputPin)
validateSharePin(m, slug, inputPin) ==
  IF slug \notin DOMAIN m THEN FALSE
  ELSE IF ~Truthy(m[slug].pin) THEN TRUE
  ELSE IF ~Truthy(inputPin) THEN FALSE
  ELSE hashPin(inputPin) = m[slug].pin

\* An incrementDownloads that also moves the expiry of the record one
\* minute on.
incrementDownloadsExtend(m, slug) ==
  IF slug \notin DOMAIN m
  THEN [shares |-> m, timer |-> FALSE]
  ELSE LET share == [m[slug] EXCEPT
                       !.downloads = @ + 1,
                       !.expiresAt = IF @.t = "num" THEN Num(@.v + 60000) ELSE @]
       IN [shares |-> [m EXCEPT ![slug] = share],
           timer |-> LimitReached(share)]

\* An incrementDownloads that raises the counter by two.
incrementDownloadsByTwo(m, slug) ==
  IF slug \notin DOMAIN m
  THEN [shares |-> m, timer |-> FALSE]
  ELSE LET share == [m[slug] EXCEPT !.downloads = @ + 2] IN
       [shares |-> [m EXCEPT ![slug] = share],
        timer |-> LimitReached(share)]

\* An incrementDownloads that schedules no deferred deletion.
incrementDownloadsNoTimer(m, slug) ==
  IF slug \notin DOMAIN m
  THEN [shares |-> m, timer |-> FALSE]
  ELSE [shares |-> [m EXCEPT ![slug].downloads = @ + 1], timer |-> FALSE]

\* incrementDownloads(slug): the store afterwards and whether a deferred
\* deletion is scheduled.
incrementDownloads(m, slug) ==
  IF slug \notin DOMAIN m
  THEN [shares |-> m, timer |-> FALSE]
  ELSE LET share == [m[slug] EXCEPT !.downloads = @ + 1] IN
       [shares |-> [m EXCEPT ![slug] = share],
        timer |-> LimitReached(share)]

(***************************************************************************)
(* The history the properties speak of.                                    *)
(***************************************************************************)
\* expiresAt is set and t is later.
PastExpiry(share, t) == share.expiresAt.t = "num" /\ t > share.expiresAt.v

\* maxDownloads is set and the counter is not below it.
AtCap(share) ==
  /\ share.maxDownloads.t = "str"
  /\ GreaterEq(share.downloads, share.maxDownloads)

\* What the history keeps of the record stored under slug.
Entry(slug, share) == [slug |-> slug, id |-> share.id, hasPin |-> Truthy(share.pin)]

Lapsed(m, t) == {Entry(s, m[s]) : s \in {x \in DOMAIN m : PastExpiry(m[x], t)}}

\* The history sp once the records of m that have reached their cap are in
\* it: a record enters with no download request answered since.
Spent(sp, m) ==
  sp \cup {[slug |-> s, id |-> m[s].id, hasPin |-> Truthy(m[s].pin), next |-> "none"] :
             s \in {x \in DOMAIN m : AtCap(m[x]) /\ m[x].id \notin {d.id : d \in sp}}}

\* The history sp once a download request for slug, which found the record
\* id (0: none), got the code: it is the next request of the spent records
\* of that slug which had none yet.
Answered(sp, slug, id, code) ==
  {IF d.slug = slug /\ d.next = "none" /\ id \in {0, d.id}
   THEN [d EXCEPT !.next = code] ELSE d : d \in sp}

\* The history h without the record id, which DELETE removed.
Without(h, id) == {d \in h : d.id # id}

(***************************************************************************)
(* The state after construction: an empty store, an empty directory.       *)
(***************************************************************************)
NoResponse == [op |-> "none", code |-> "none", slug |-> << >>, id |-> 0,
               pin |-> Undefined, ttl |-> Undefined, maxDownloads |-> Undefined,
               customSlug |-> Undefined, isExpired |-> "absent", list |-> {}]

\* A request (its route, the slug it addresses or gets, the id of the record
\* it finds or creates, its pin, ttl, maxDownloads and customSlug fields) and
\* the code of its response; isExpired is the field of that name in the
\* response body, "absent" when the body has none; list is the array of
\* share summaries in the body, empty when the body has none.
Response(op, code, slug, id, pin, ttl, maxDownloads) ==
  [op |-> op, code |-> code, slug |-> slug, id |-> id,
   pin |-> pin, ttl |-> ttl, maxDownloads |-> maxDownloads,
   customSlug |-> Undefined, isExpired |-> "absent", list |-> {}]

Init ==
  /\ shares = << >>
  /\ now = StartMs
  /\ disk = {}
  /\ timers = << >>
  /\ inflight = << >>
  /\ nextId = 0
  /\ res = NoResponse
  /\ passed = << >>
  /\ lapsed = {}
  /\ spent = {}

\* The ids of the records of store m.
Ids(m) == {m[s].id : s \in DOMAIN m}

\* The pass counts of the records that are still stored in m.
Forget(p, m) == [i \in Ids(m) |-> p[i]]

\* The files of the directory d that neither a record of m nor a suspended
\* upload handler owns.
Orphans(d, m, q) ==
  d \ (UNION {Paths(m[s]) : s \in DOMAIN m} \cup UNION {q[i].paths : i \in 1..Len(q)})

(***************************************************************************)
(* The clock.                                                              *)
(***************************************************************************)
Tick ==
  /\ res = NoResponse
  /\ now < StartMs + MaxTicks * TickMs
  /\ now' = now + TickMs
  /\ res' = [NoResponse EXCEPT !.op = "tick"]
  /\ lapsed' = lapsed \cup Lapsed(shares, now')
  /\ UNCHANGED <<shares, disk, timers, inflight, nextId, passed, spent>>

(***************************************************************************)
(* routes/upload                                                           *)
(***************************************************************************)
\* multer.diskStorage filename: `${Date.now()}-${random}-${originalname}`
FileName(t, rnd, originalname) == [ms |-> t, rnd |-> rnd, name |-> originalname]

\* files.map(file => ({originalName, path, ...}))
FileEntry(t, rnd, originalname) ==
  [originalName |-> originalname, path |-> FileName(t, rnd, originalname)]

\* ttl && (isNaN(ttl) || parseInt(ttl) < 1 || parseInt(ttl) > 10080)
InvalidTtl(ttl) ==
  /\ Truthy(ttl)
  /\ \/ isNaN(ttl)
     \/ NumLess(parseInt(ttl), 1)
     \/ NumGreater(parseInt(ttl), 10080)

\* maxDownloads && (isNaN(maxDownloads) || parseInt(maxDownloads) < 1
\*                  || parseInt(maxDownloads) > 1000)
InvalidMaxDownloads(maxDownloads) ==
  /\ Truthy(maxDownloads)
  /\ \/ isNaN(maxDownloads)
     \/ NumLess(parseInt(maxDownloads), 1)
     \/ NumGreater(parseInt(maxDownloads), 1000)

\* The validation of POST /api/upload: the error code, or "ok".
ValidateUpload(form) ==
  IF Truthy(form.pin) /\ ~validatePin(form.pin) THEN "INVALID_PIN_FORMAT"
  ELSE IF InvalidTtl(form.ttl) THEN "INVALID_TTL"
  ELSE IF InvalidMaxDownloads(form.maxDownloads) THEN "INVALID_MAX_DOWNLOADS"
  ELSE "ok"

\* The validation of POST /api/upload/single: the error code, or "ok".
ValidateSingle(form) ==
  IF Truthy(form.pin) /\ ~validatePin(form.pin) THEN "INVALID_PIN_FORMAT"
  ELSE "ok"

\* A handler that answers its validation error: the files multer stored stay.
Reject(op, code, form, files) ==
  /\ Cardinality(Orphans(disk, shares, inflight)) <= MaxOrphans
  /\ \A i \in 1..Len(files) : files[i].path.rnd = RejectedRand
  /\ disk' = disk \cup {files[i].path : i \in 1..Len(files)}
  /\ res' = Response(op, code, << >>, 0, form.pin, form.ttl, form.maxDownloads)
  /\ UNCHANGED <<shares, nextId, inflight, passed, lapsed, spent>>

\* A handler from its validation to its await: createShare, then the handler
\* suspends on the QR code.
CreateAndSuspend(op, form, customSlug, files, maxShares) ==
  /\ nextId < maxShares
  /\ \E slug \in generateSlug(shares, customSlug) :
       LET share == NewShare(nextId + 1,
                             [files |-> files, customSlug |-> customSlug,
                              pin |-> form.pin, ttl |-> form.ttl,
                              maxDownloads |-> form.maxDownloads], now)
       IN /\ shares' = MapSet(shares, slug, share)
          /\ nextId' = nextId + 1
          /\ inflight' = Append(inflight, [op |-> op, slug |-> slug, id |-> nextId + 1,
                                           paths |-> Paths(share)])
          /\ passed' = MapSet(passed, nextId + 1, 0)
          /\ disk' = disk \cup Paths(share)
          /\ lapsed' = lapsed \cup Lapsed(shares', now)
          /\ spent' = Spent(spent, shares')
          /\ res' = [Response(op, "created", slug, nextId + 1,
                              form.pin, form.ttl, form.maxDownloads)
                     EXCEPT !.customSlug = customSlug]

\* POST /api/upload with two files: multer stores them, then the handler runs.
Upload(forms, rands, maxShares) ==
  \E form \in forms, customSlug \in CustomSlugs, r1 \in rands :
    LET files == <<FileEntry(now, r1, <<"f">>), FileEntry(now, r1, <<"g">>)>>
        v == ValidateUpload(form)
    IN /\ res = NoResponse
       /\ IF v # "ok"
          THEN Reject("upload", v, form, files)
          ELSE CreateAndSuspend("upload", form, customSlug, files, maxShares)
       /\ UNCHANGED <<now, timers>>

\* POST /api/upload with no file.
UploadNoFiles ==
  /\ res = NoResponse
  /\ res' = [NoResponse EXCEPT !.op = "upload", !.code = "NO_FILES"]
  /\ UNCHANGED <<shares, now, disk, timers, inflight, nextId, passed, lapsed, spent>>

\* POST /api/upload/single.
UploadSingle(forms, rands, maxShares) ==
  \E form \in forms, customSlug \in CustomSlugs, r1 \in rands :
    LET files == <<FileEntry(now, r1, <<"f">>)>>
        v == ValidateSingle(form)
    IN /\ res = NoResponse
       /\ IF v # "ok"
          THEN Reject("single", v, form, files)
          ELSE CreateAndSuspend("single", form, customSlug, files, maxShares)
       /\ UNCHANGED <<now, timers>>

RemoveAt(q, i) == SubSeq(q, 1, i - 1) \o SubSeq(q, i + 1, Len(q))

\* The handler resumes after await QRCode.toDataURL(shareUrl): 201.
UploadRespond ==
  \E i \in 1..Len(inflight) :
    /\ res = NoResponse
    /\ inflight' = RemoveAt(inflight, i)
    /\ res' = [NoResponse EXCEPT !.op = inflight[i].op, !.code = "201",
                                 !.slug = inflight[i].slug, !.id = inflight[i].id]
    /\ UNCHANGED <<shares, now, disk, timers, nextId, passed, lapsed, spent>>

\* The await throws (the URL does not fit a QR code): the catch block
\* unlinks the uploaded files and answers 500.
UploadFail ==
  \E i \in 1..Len(inflight) :
    /\ res = NoResponse
    /\ inflight' = RemoveAt(inflight, i)
    /\ disk' = Unlink(disk, inflight[i].paths)
    /\ res' = [NoResponse EXCEPT !.op = inflight[i].op, !.code = "UPLOAD_FAILED",
                                 !.slug = inflight[i].slug, !.id = inflight[i].id]
    /\ UNCHANGED <<shares, now, timers, nextId, passed, lapsed, spent>>

(***************************************************************************)
(* routes/share                                                            *)
(***************************************************************************)
\* fs.existsSync(file.path)
Exists(d, file) == file.path \in d

\* The file-serving part of the download handler, after the gate.
Serve(d, share) ==
  IF Len(share.files) = 1
  THEN IF Exists(d, share.files[1]) THEN "OK" ELSE "FILE_NOT_FOUND"
  ELSE IF \E i \in 1..Len(share.files) : Exists(d, share.files[i])
       THEN "OK" ELSE "NO_FILES_FOUND"

\* The decimal digits of a natural number, as template literals print it.
RECURSIVE Decimal(_)
Decimal(n) ==
  IF n < 10 THEN <<CHOOSE c \in Digits : DigitVal(c) = n>>
  ELSE Decimal(n \div 10) \o Decimal(n % 10)

\* The position of the last "." of s, 0 when it has none.
LastDot(s) ==
  IF \E i \in 1..Len(s) : s[i] = "."
  THEN CHOOSE i \in 1..Len(s) : s[i] = "." /\ \A j \in (i + 1)..Len(s) : s[j] # "."
  ELSE 0

\* path.extname(s) for a file name without directories: from the last "."
\* on, empty when there is none or when it is the first character.
extname(s) == IF LastDot(s) <= 1 THEN << >> ELSE SubSeq(s, LastDot(s), Len(s))

\* path.basename(s, ext) for a file name without directories.
basename(s, ext) ==
  IF /\ ext # << >>
     /\ Len(s) > Len(ext)
     /\ SubSeq(s, Len(s) - Len(ext) + 1, Len(s)) = ext
  THEN SubSeq(s, 1, Len(s) - Len(ext))
  ELSE s

\* The while loop of the ZIP branch: the name given to a file with the
\* original name orig, from the candidate fileName and the counter on.
RECURSIVE Rename(_, _, _, _)
Rename(orig, existingNames, fileName, counter) ==
  IF fileName \in existingNames
  THEN Rename(orig, existingNames,
              basename(orig, extname(orig)) \o <<"_">> \o Decimal(counter)
                \o extname(orig),
              counter + 1)
  ELSE fileName

\* The in-archive name of the file at index i (from 1) of the list.
ZipName(files, i) ==
  Rename(files[i].originalName,
         {files[j].originalName : j \in 1..(i - 1)},
         files[i].originalName, 1)

\* The files the ZIP branch adds to the archive, each with its index and
\* its in-archive name: the files that exist.
ArchiveNames(d, share) ==
  {[index |-> i, name |-> ZipName(share.files, i)] :
     i \in {j \in 1..Len(share.files) : Exists(d, share.files[j])}}

\* A gate that validates the PIN before it looks at expiry and limit.
GatePinFirst(m, t, slug, inputPin) ==
  IF slug \notin DOMAIN m THEN "SHARE_NOT_FOUND"
  ELSE IF ~validateSharePin(m, slug, inputPin) THEN "INVALID_PIN"
  ELSE IF Expired(m[slug], t) THEN "SHARE_EXPIRED"
  ELSE IF LimitReached(m[slug]) THEN "DOWNLOAD_LIMIT_REACHED"
  ELSE "pass"

\* The download gate: the outcome of the checks that precede
\* incrementDownloads, in the order of the handler.
Gate(m, t, slug, inputPin) ==
  IF slug \notin DOMAIN m THEN "SHARE_NOT_FOUND"
  ELSE IF Expired(m[slug], t) THEN "SHARE_EXPIRED"
  ELSE IF LimitReached(m[slug]) THEN "DOWNLOAD_LIMIT_REACHED"
  ELSE IF ~validateSharePin(m, slug, inputPin) THEN "INVALID_PIN"
  ELSE "pass"

\* A download handler that answers SHARE_EXPIRED and DOWNLOAD_LIMIT_REACHED
\* without calling Share.deleteShare(slug).
downloadHandlerNoCleanup(m, d, t, slug, inputPin) ==
  LET g == Gate(m, t, slug, inputPin)
      same == [code |-> g, shares |-> m, disk |-> d, pass |-> FALSE, timer |-> FALSE]
  IN IF g = "pass"
     THEN LET inc == incrementDownloads(m, slug) IN
          [code |-> Serve(d, m[slug]), shares |-> inc.shares, disk |-> d,
           pass |-> TRUE, timer |-> inc.timer]
     ELSE same

\* A download handler that looks for the files first and calls
\* incrementDownloads only when it has something to send.
downloadHandlerServeFirst(m, d, t, slug, inputPin) ==
  LET g == Gate(m, t, slug, inputPin)
      same == [code |-> g, shares |-> m, disk |-> d, pass |-> FALSE, timer |-> FALSE]
  IN CASE g = "SHARE_NOT_FOUND" -> same
       [] g \in {"SHARE_EXPIRED", "DOWNLOAD_LIMIT_REACHED"} ->
            LET del == deleteShare(m, d, slug) IN
            [same EXCEPT !.shares = del.shares, !.disk = del.disk]
       [] g = "INVALID_PIN" -> same
       [] g = "pass" ->
            LET inc == incrementDownloads(m, slug) IN
            IF Serve(d, m[slug]) = "OK"
            THEN [code |-> "OK", shares |-> inc.shares, disk |-> d,
                  pass |-> TRUE, timer |-> inc.timer]
            ELSE [same EXCEPT !.code = Serve(d, m[slug]), !.pass = TRUE]

\* A download handler that counts the request before it validates the PIN.
downloadHandlerCountFirst(m, d, t, slug, inputPin) ==
  LET g == Gate(m, t, slug, inputPin)
      same == [code |-> g, shares |-> m, disk |-> d, pass |-> FALSE, timer |-> FALSE]
  IN CASE g = "SHARE_NOT_FOUND" -> same
       [] g \in {"SHARE_EXPIRED", "DOWNLOAD_LIMIT_REACHED"} ->
            LET del == deleteShare(m, d, slug) IN
            [same EXCEPT !.shares = del.shares, !.disk = del.disk]
       [] g = "INVALID_PIN" ->
            LET inc == incrementDownloads(m, slug) IN
            [same EXCEPT !.shares = inc.shares, !.timer = inc.timer]
       [] g = "pass" ->
            LET inc == incrementDownloads(m, slug) IN
            [code |-> Serve(d, m[slug]), shares |-> inc.shares, disk |-> d,
             pass |-> TRUE, timer |-> inc.timer]

\* The download handler from its first line to its response: the code it
\* answers, the store and the directory it leaves, whether the request passed
\* the gate and whether incrementDownloads scheduled a deferred deletion.
downloadHandler(m, d, t, slug, inputPin) ==
  LET g == Gate(m, t, slug, inputPin)
      same == [code |-> g, shares |-> m, disk |-> d, pass |-> FALSE, timer |-> FALSE]
  IN CASE g = "SHARE_NOT_FOUND" -> same
       [] g \in {"SHARE_EXPIRED", "DOWNLOAD_LIMIT_REACHED"} ->
            LET del == deleteShare(m, d, slug) IN
            [same EXCEPT !.shares = del.shares, !.disk = del.disk]
       [] g = "INVALID_PIN" -> same
       [] g = "pass" ->
            LET inc == incrementDownloads(m, slug) IN
            [code |-> Serve(d, m[slug]), shares |-> inc.shares, disk |-> d,
             pass |-> TRUE, timer |-> inc.timer]

\* The HTTP status the share routes send with each code.
Status(code) ==
  CASE code \in {"OK", "deleted", "info", "stats", "qr", "qr_info", "list"} -> 200
    [] code = "INVALID_PIN" -> 401
    [] code = "PIN_REQUIRED" -> 401
    [] code \in {"SHARE_NOT_FOUND", "SHARE_EXPIRED",
                 "FILE_NOT_FOUND", "NO_FILES_FOUND"} -> 404
    [] code = "DOWNLOAD_LIMIT_REACHED" -> 410
    [] code \in {"DELETE_FAILED", "QR_GENERATION_FAILED"} -> 500

\* GET /api/share/:slug/download
Download(pins) ==
  \E slug \in RequestSlugs, pin \in pins, authPin \in pins :
    LET inputPin == Or(pin, authPin)
        h == downloadHandler(shares, disk, now, slug, inputPin)
        id == IF slug \in DOMAIN shares THEN shares[slug].id ELSE 0
    IN /\ res = NoResponse
       /\ (pin = Undefined \/ authPin = Undefined)
       /\ h.pass => shares[slug].downloads < MaxCount
       /\ shares' = h.shares
       /\ disk' = h.disk
       /\ timers' = IF h.timer THEN Append(timers, slug) ELSE timers
       /\ passed' = Forget(IF h.pass THEN [passed EXCEPT ![id] = @ + 1] ELSE passed,
                           shares')
       /\ res' = [Response("download", h.code, slug, id, inputPin, Undefined, Undefined)
                  EXCEPT !.list = IF h.pass /\ h.code = "OK" /\ Len(shares[slug].files) # 1
                                  THEN ArchiveNames(disk, shares[slug]) ELSE {}]
       /\ spent' = Spent(Answered(spent, slug, id, h.code), shares')
       /\ UNCHANGED <<now, inflight, nextId, lapsed>>

\* A DELETE route that does not ask for the PIN.
DeleteRouteOpen(pins) ==
  \E slug \in RequestSlugs, pin \in pins :
    LET id == IF slug \in DOMAIN shares THEN shares[slug].id ELSE 0
        del == deleteShare(shares, disk, slug)
    IN /\ res = NoResponse
       /\ shares' = del.shares
       /\ disk' = del.disk
       /\ passed' = Forget(passed, shares')
       /\ lapsed' = Without(lapsed, id)
       /\ spent' = Without(spent, id)
       /\ res' = Response("delete", IF del.ret THEN "deleted" ELSE "SHARE_NOT_FOUND",
                          slug, id, pin, Undefined, Undefined)
       /\ UNCHANGED <<now, timers, inflight, nextId>>

\* DELETE /api/share/:slug
DeleteRoute(pins) ==
  \E slug \in RequestSlugs, pin \in pins :
    LET id == IF slug \in DOMAIN shares THEN shares[slug].id ELSE 0
        r(code) == Response("delete", code, slug, id, pin, Undefined, Undefined)
    IN /\ res = NoResponse
       /\ IF slug \notin DOMAIN shares
          THEN /\ res' = r("SHARE_NOT_FOUND")
               /\ UNCHANGED <<shares, disk, passed, lapsed, spent>>
          ELSE IF Truthy(shares[slug].pin) /\ ~validateSharePin(shares, slug, pin)
          THEN /\ res' = r("PIN_REQUIRED")
               /\ UNCHANGED <<shares, disk, passed, lapsed, spent>>
          ELSE LET del == deleteShare(shares, disk, slug) IN
               /\ shares' = del.shares
               /\ disk' = del.disk
               /\ passed' = Forget(passed, shares')
               /\ lapsed' = Without(lapsed, id)
               /\ spent' = Without(spent, id)
               /\ res' = r(IF del.ret THEN "deleted" ELSE "DELETE_FAILED")
       /\ UNCHANGED <<now, timers, inflight, nextId>>

\* A read request against slug: its response, and the store and directory
\* it leaves.
Read(op, code, slug, pin, isExpired, m, d) ==
  /\ res = NoResponse
  /\ shares' = m
  /\ disk' = d
  /\ passed' = Forget(passed, shares')
  /\ res' = [Response(op, code, slug,
                      IF slug \in DOMAIN shares THEN shares[slug].id ELSE 0,
                      pin, Undefined, Undefined) EXCEPT !.isExpired = isExpired]
  /\ UNCHANGED <<now, timers, inflight, nextId, lapsed, spent>>

\* GET /api/share/:slug
Info ==
  \E slug \in RequestSlugs :
    IF slug \notin DOMAIN shares
    THEN Read("info", "SHARE_NOT_FOUND", slug, Undefined, "absent", shares, disk)
    ELSE IF Expired(shares[slug], now)
    THEN LET del == deleteShare(shares, disk, slug) IN
         Read("info", "SHARE_EXPIRED", slug, Undefined, "absent", del.shares, del.disk)
    ELSE Read("info", "info", slug, Undefined, "false", shares, disk)

\* GET /api/share/:slug/stats
Stats ==
  \E slug \in RequestSlugs :
    IF getShare(shares, slug) = Undefined
    THEN Read("stats", "SHARE_NOT_FOUND", slug, Undefined, "absent", shares, disk)
    ELSE Read("stats", "stats", slug, Undefined,
              IF Truthy(shares[slug].expiresAt) /\ now > shares[slug].expiresAt.v
              THEN "true" ELSE "false",
              shares, disk)

\* GET /api/qr/:slug; the pin of the response is the one the handler puts in
\* the URL it encodes, and ok is whether the qrcode library succeeds.
QrGenerate(pins) ==
  \E slug \in RequestSlugs, pin \in pins, ok \in BOOLEAN :
    IF slug \notin DOMAIN shares
    THEN ok /\ Read("qr", "SHARE_NOT_FOUND", slug, Undefined, "absent", shares, disk)
    ELSE IF Expired(shares[slug], now)
    THEN LET del == deleteShare(shares, disk, slug) IN
         ok /\ Read("qr", "SHARE_EXPIRED", slug, Undefined, "absent", del.shares, del.disk)
    ELSE Read("qr", IF ok THEN "qr" ELSE "QR_GENERATION_FAILED", slug,
              IF ok /\ Truthy(pin) /\ validateSharePin(shares, slug, pin)
              THEN pin ELSE Undefined,
              "absent", shares, disk)

\* GET /api/share (the list of shares): the summaries of getAllShares, each
\* with its timeRemaining.
ListRoute ==
  /\ res = NoResponse
  /\ res' = [NoResponse EXCEPT
               !.op = "list", !.code = "list",
               !.list = {[summary |-> x,
                          timeRemaining |->
                            IF Truthy(x.expiresAt)
                            THEN Num(IF x.expiresAt.v > now THEN x.expiresAt.v - now ELSE 0)
                            ELSE Null] : x \in getAllShares(shares, now)}]
  /\ UNCHANGED <<shares, now, disk, timers, inflight, nextId, passed, lapsed, spent>>

\* GET /api/qr/:slug/info
QrInfo ==
  \E slug \in RequestSlugs :
    IF getShare(shares, slug) = Undefined
    THEN Read("qr_info", "SHARE_NOT_FOUND", slug, Undefined, "absent", shares, disk)
    ELSE Read("qr_info", "qr_info", slug, Undefined, "absent", shares, disk)

(***************************************************************************)
(* The timers of models/Share                                              *)
(***************************************************************************)
\* A sweeper that removes the records that have not expired.
SweepSetLive(m, t) == {s \in DOMAIN m : ~Expired(m[s], t)}

\* The slugs the sweeper removes at time t.
SweepSet(m, t) == {s \in DOMAIN m : Expired(m[s], t)}

\* A sweeper whose cycles remove nothing.
SweepIdle ==
  /\ res = NoResponse
  /\ res' = [NoResponse EXCEPT !.op = "sweep", !.code = "idle"]
  /\ UNCHANGED <<shares, now, disk, timers, inflight, nextId, passed, lapsed, spent>>

\* setInterval(() => {...}, 60000): one cycle of the sweeper; the code says
\* whether the cycle logged a deletion.
Sweep ==
  LET gone == SweepSet(shares, now) IN
  /\ res = NoResponse
  /\ shares' = [s \in DOMAIN shares \ gone |-> shares[s]]
  /\ disk' = Unlink(disk, UNION {Paths(shares[s]) : s \in gone})
  /\ passed' = Forget(passed, shares')
  /\ res' = [NoResponse EXCEPT !.op = "sweep",
                               !.code = IF gone = {} THEN "idle" ELSE "swept"]
  /\ UNCHANGED <<now, timers, inflight, nextId, lapsed, spent>>

\* setTimeout(() => deleteShare(slug), 1000) fires.
TimerFire ==
  /\ res = NoResponse
  /\ timers # << >>
  /\ LET del == deleteShare(shares, disk, Head(timers)) IN
     /\ shares' = del.shares
     /\ disk' = del.disk
  /\ passed' = Forget(passed, shares')
  /\ timers' = Tail(timers)
  /\ res' = [NoResponse EXCEPT
               !.op = "timer", !.slug = Head(timers),
               !.id = IF Head(timers) \in DOMAIN shares
                      THEN shares[Head(timers)].id ELSE 0]
  /\ UNCHANGED <<now, inflight, nextId, lapsed, spent>>

\* The response of the last step has left: the server is between steps.
Done ==
  /\ res # NoResponse
  /\ res' = NoResponse
  /\ UNCHANGED <<shares, now, disk, timers, inflight, nextId, passed, lapsed, spent>>

\* The steps of the server when uploads submit the given forms, multer draws
\* its random numbers from rands, downloads and deletions supply the given
\* pins and createShare is called at most maxShares times.
Step(forms, rands, pins, maxShares) ==
  \/ Tick
  \/ Upload(forms, rands, maxShares)
  \/ UploadNoFiles
  \/ UploadSingle(forms, rands, maxShares)
  \/ UploadRespond
  \/ UploadFail
  \/ Download(pins)
  \/ DeleteRoute(pins)
  \/ Info
  \/ Stats
  \/ QrGenerate(pins)
  \/ QrInfo
  \/ ListRoute
  \/ Sweep
  \/ TimerFire
  \/ Done

\* One share, every form and pin.
Next == Step(GateForms, {0}, RequestPins, GateShares)

Spec == Init /\ [][Next]_vars

\* Two shares, the forms of StoreForms, colliding file names.
NextStore == Step(StoreForms, {0, 1}, NoPins, StoreShares)

SpecStore == Init /\ [][NextStore]_vars

\* One share with a ttl, a download cap or both, no pins.
NextLive == Step(LiveForms, {0}, NoPins, LiveShares)

\* The timers phase of the event loop runs in every iteration of the loop,
\* whatever the request traffic: the clock advances, the interval of the
\* sweeper and every pending timeout fire again and again, and a handler
\* that has sent its response returns.
Fairness ==
  /\ SF_vars(Tick)
  /\ SF_vars(Sweep)
  /\ SF_vars(TimerFire)
  /\ WF_vars(Done)

SpecLive == Init /\ [][NextLive]_vars /\ Fairness

\* One share of two files, the second of which the operating system refuses
\* to unlink.
NextFs == Step(FsForms, {StuckRand}, NoPins, FsShares)

SpecFs == Init /\ [][NextFs]_vars

\* The original names of the files of the share of SpecZip.
ZipOriginals ==
  {<<"a">>, <<"a", "_", "1">>, <<"a", ".", "t">>, <<"a", "_", "1", ".", "t">>}

\* The lists of original names of a share of two to MaxZipFiles files.
ZipLists ==
  UNION {[1..n -> ZipOriginals] : n \in 2..MaxZipFiles}

\* A store that holds one share, without PIN, ttl or cap, of files with the
\* given original names, of which those at the indices in present exist.
InitZip ==
  \E names \in ZipLists :
    \E present \in SUBSET (1..Len(names)) :
      LET files == [i \in 1..Len(names) |-> FileEntry(StartMs, i, names[i])]
          share == NewShare(1, [files |-> files, customSlug |-> Undefined,
                                pin |-> Undefined, ttl |-> Undefined,
                                maxDownloads |-> Undefined], StartMs)
      IN /\ shares = MapSet(<< >>, <<"a">>, share)
         /\ disk = {files[i].path : i \in present}
         /\ now = StartMs
         /\ timers = << >>
         /\ inflight = << >>
         /\ nextId = 1
         /\ res = NoResponse
         /\ passed = MapSet(<< >>, 1, 0)
         /\ lapsed = {}
         /\ spent = {}

\* Download requests against that store.
NextZip == Download(NoPins) \/ Done

SpecZip == InitZip /\ [][NextZip]_vars

(***************************************************************************)
(* The standalone server, src/server.js: its own store, the same directory. *)
(***************************************************************************)
\* The pin, customSlug and ttl fields of the upload forms of the server.
ServerForms ==
  {Form(Undefined, Undefined, Undefined),
   Form(Pin1234, Undefined, Undefined),
   Form(Undefined, Str(<<"1">>), Undefined)}

\* Slugs a request to the server may address.
ServerSlugs == Tokens \cup {<<"a", "!">>}

\* generateSlug(customSlug) of the server: the slugs the call may return.
serverGenerateSlug(m, customSlug) ==
  IF Truthy(customSlug) /\ customSlug.v \notin DOMAIN m
  THEN {customSlug.v}
  ELSE Tokens \ DOMAIN m

\* hashPin(pin) of the server: no salt.
serverHashPin(pin) == Sha256(pin.v)

\* The shareData object the upload handler of the server builds.
ServerShare(id, files, form, t) ==
  [id |-> id,
   files |-> files,
   createdAt |-> t,
   downloads |-> 0,
   pin |-> IF Truthy(form.pin) THEN serverHashPin(form.pin) ELSE Null,
   expiresAt |-> IF Truthy(form.ttl)
                 THEN LET p == parseInt(form.ttl) IN
                      IF p.t = "num" THEN Num(t + p.v * 60 * 1000) ELSE NaN
                 ELSE Null]

\* POST /api/upload of the server, up to its await; the random numbers
\* multer draws for the file names differ from upload to upload.
ServerUpload ==
  \E form \in ServerForms, customSlug \in CustomSlugs, n \in {1, 2} :
    LET files == IF n = 1 THEN <<FileEntry(now, nextId, <<"f">>)>>
                 ELSE <<FileEntry(now, nextId, <<"f">>), FileEntry(now, nextId, <<"g">>)>>
    IN /\ res = NoResponse
       /\ nextId < ServerShares
       /\ \E slug \in serverGenerateSlug(shares, customSlug) :
            LET share == ServerShare(nextId + 1, files, form, now) IN
            /\ shares' = MapSet(shares, slug, share)
            /\ disk' = disk \cup Paths(share)
            /\ inflight' = Append(inflight, [op |-> "server_upload", slug |-> slug,
                                             id |-> nextId + 1, paths |-> Paths(share)])
            /\ passed' = MapSet(passed, nextId + 1, 0)
            /\ res' = [Response("server_upload", "created", slug, nextId + 1,
                                form.pin, form.ttl, Undefined)
                       EXCEPT !.customSlug = customSlug]
       /\ nextId' = nextId + 1
       /\ lapsed' = lapsed \cup Lapsed(shares', now)
       /\ UNCHANGED <<now, timers, spent>>

\* POST /api/upload of the server without files.
ServerUploadNoFiles ==
  /\ res = NoResponse
  /\ res' = [NoResponse EXCEPT !.op = "server_upload", !.code = "no_files"]
  /\ UNCHANGED <<shares, now, disk, timers, inflight, nextId, passed, lapsed, spent>>

\* The upload handler of the server resumes: res.json({success: true, ...}),
\* or the catch block answers 500; neither touches the store or the files.
ServerUploadRespond ==
  \E i \in 1..Len(inflight), ok \in BOOLEAN :
    /\ res = NoResponse
    /\ inflight' = RemoveAt(inflight, i)
    /\ res' = [NoResponse EXCEPT !.op = "server_upload",
                                 !.code = IF ok THEN "200" ELSE "500",
                                 !.slug = inflight[i].slug, !.id = inflight[i].id]
    /\ UNCHANGED <<shares, now, disk, timers, nextId, passed, lapsed, spent>>

\* A request to the server that reads or changes the record under slug.
ServerRequest(op, code, slug, pin, m, d, p) ==
  /\ res = NoResponse
  /\ shares' = m
  /\ disk' = d
  /\ passed' = Forget(p, shares')
  /\ res' = Response(op, code, slug,
                     IF slug \in DOMAIN shares THEN shares[slug].id ELSE 0,
                     pin, Undefined, Undefined)
  /\ UNCHANGED <<now, timers, inflight, nextId, lapsed, spent>>

\* GET /api/share/:slug/info of the server.
ServerInfo ==
  \E slug \in ServerSlugs :
    ServerRequest("server_info", IF slug \in DOMAIN shares THEN "200" ELSE "404",
                  slug, Undefined, shares, disk, passed)

\* GET /share/:slug of the server.
ServerDownload ==
  \E slug \in ServerSlugs, pin \in RequestPins :
    IF slug \notin DOMAIN shares
    THEN ServerRequest("server_download", "404", slug, pin, shares, disk, passed)
    ELSE IF Truthy(shares[slug].pin)
            /\ (~Truthy(pin) \/ serverHashPin(pin) # shares[slug].pin)
    THEN ServerRequest("server_download", "401", slug, pin, shares, disk, passed)
    ELSE /\ shares[slug].downloads < MaxCount
         /\ ServerRequest("server_download", "served", slug, pin,
                          [shares EXCEPT ![slug].downloads = @ + 1], disk,
                          [passed EXCEPT ![shares[slug].id] = @ + 1])

\* GET /api/qr/:slug of the server; ok is whether the qrcode library
\* succeeds.
ServerQr ==
  \E slug \in ServerSlugs, ok \in BOOLEAN :
    ServerRequest("server_qr",
                  IF slug \notin DOMAIN shares THEN "404"
                  ELSE IF ok THEN "200" ELSE "500",
                  slug, Undefined, shares, disk, passed)

\* GET /api/shares of the server.
ServerList ==
  /\ res = NoResponse
  /\ res' = [NoResponse EXCEPT !.op = "server_list", !.code = "200"]
  /\ UNCHANGED <<shares, now, disk, timers, inflight, nextId, passed, lapsed, spent>>

\* DELETE /api/share/:slug of the server.
ServerDelete ==
  \E slug \in ServerSlugs :
    IF slug \notin DOMAIN shares
    THEN ServerRequest("server_delete", "404", slug, Undefined, shares, disk, passed)
    ELSE ServerRequest("server_delete", "200", slug, Undefined,
                       MapDelete(shares, slug), UnlinkAll(disk, shares[slug]), passed)

\* setInterval(() => {...}, 60000) of the server: the same loop as the
\* sweeper of models/Share.
ServerSweep == Sweep

NextServer ==
  \/ Tick
  \/ ServerUpload
  \/ ServerUploadNoFiles
  \/ ServerUploadRespond
  \/ ServerInfo
  \/ ServerDownload
  \/ ServerQr
  \/ ServerList
  \/ ServerDelete
  \/ ServerSweep
  \/ Done

SpecServer == Init /\ [][NextServer]_vars

(***************************************************************************)
(* Properties.                                                             *)
(***************************************************************************)
\* The codes the download handler answers after the gate has let the
\* request through.
PassCodes == {"OK", "FILE_NOT_FOUND", "NO_FILES_FOUND"}

\* The record stored under s before the step is still stored under s after it.
Kept(s) == s \in DOMAIN shares' /\ shares'[s].id = shares[s].id

\* The step is a download request against slug s.
DownloadOf(s) == res'.op = "download" /\ res'.slug = s

\* The step let a download request against the record under s through.
PassedGate(s) ==
  /\ DownloadOf(s)
  /\ res'.code \in PassCodes
  /\ Kept(s)
  /\ shares'[s].downloads = shares[s].downloads + 1

\* The step left the download counter of the record under s alone.
NotCounted(s) == Kept(s) => shares'[s].downloads = shares[s].downloads

\* C1: a step that creates a record stores it under a slug that held no
\* record, and leaves every record that was stored as it was; the records of
\* the store have distinct ids.
C1_SlugUniqueness ==
  [][/\ nextId' # nextId =>
          /\ Cardinality(DOMAIN shares') = Cardinality(DOMAIN shares) + 1
          /\ \A s \in DOMAIN shares : s \in DOMAIN shares' /\ shares'[s] = shares[s]
     /\ \A s1, s2 \in DOMAIN shares' :
          shares'[s1].id = shares'[s2].id => s1 = s2]_vars

\* A record was created with a customSlug that a live record holds: it got a
\* generated slug and both records are stored.
C1_Witness ==
  /\ res.code = "created"
  /\ res.customSlug = Str(<<"a">>)
  /\ res.slug = <<"k">>
  /\ DOMAIN shares = {<<"a">>, <<"k">>}
  /\ shares[<<"a">>].id # shares[<<"k">>].id

\* C2: for every stored record with maxDownloads = N, at most N download
\* requests have passed the gate.
C2_AtMostN ==
  \A s \in DOMAIN shares :
    shares[s].maxDownloads.t = "str" =>
      LessEq(passed[shares[s].id], shares[s].maxDownloads)

\* C3: a download request against a record that now has passed the expiresAt
\* of never passes the gate: it is answered none of the codes that follow the
\* gate and the record's download counter stays.
C3_ExpiredNeverPasses ==
  [][\A s \in DOMAIN shares :
       (PastExpiry(shares[s], now) /\ DownloadOf(s)) =>
          /\ res'.code \notin PassCodes
          /\ NotCounted(s)
          /\ passed' = Forget(passed, shares')]_vars

\* A download request found its record expired.
C3_Witness ==
  /\ res.op = "download"
  /\ res.code = "SHARE_EXPIRED"
  /\ \E d \in lapsed : d.slug = res.slug /\ d.id = res.id

RightPin(share, pin) == Truthy(pin) /\ hashPin(pin) = share.pin

C6_WrongPinNeverPasses ==
  [][\A s \in DOMAIN shares :
       (/\ DownloadOf(s)
        /\ Truthy(shares[s].pin)
        /\ ~RightPin(shares[s], res'.pin)) =>
          /\ res'.code \notin PassCodes
          /\ NotCounted(s)
          /\ passed' = Forget(passed, shares')
          /\ (~PastExpiry(shares[s], now) /\ ~AtCap(shares[s])) =>
                /\ res'.code = "INVALID_PIN"
                /\ Status(res'.code) = 401
                /\ shares' = shares]_vars

\* A download request with a wrong PIN against a stored record with a PIN
\* hash was answered INVALID_PIN.
C6_Witness ==
  /\ res.op = "download"
  /\ res.code = "INVALID_PIN"
  /\ Truthy(res.pin)
  /\ res.slug \in DOMAIN shares
  /\ shares[res.slug].id = res.id
  /\ Truthy(shares[res.slug].pin)

\* The values the pin field of a record may hold.
PinFields == {Null, hashPin(Pin1234), hashPin(Pin0000)}

\* C7: for an expired or exhausted record, the response of the download
\* handler and the store and directory it leaves are the same whatever PIN
\* the request carries and whether the record holds a PIN hash or none: the
\* code is SHARE_EXPIRED or DOWNLOAD_LIMIT_REACHED and the record is removed.
C7_NoPinLeak ==
  \A s \in DOMAIN shares :
    (PastExpiry(shares[s], now) \/ AtCap(shares[s])) =>
      \A p \in RequestPins, h \in PinFields :
        LET other == [shares EXCEPT ![s].pin = h]
            here == downloadHandler(shares, disk, now, s, p)
            there == downloadHandler(other, disk, now, s, p)
        IN /\ here.code \in {"SHARE_EXPIRED", "DOWNLOAD_LIMIT_REACHED"}
           /\ there = here
           /\ s \notin DOMAIN here.shares

\* A download request without a PIN found a PIN-protected record expired.
C7_Witness ==
  /\ res.op = "download"
  /\ res.code = "SHARE_EXPIRED"
  /\ res.pin = Undefined
  /\ \E d \in lapsed : d.slug = res.slug /\ d.id = res.id /\ d.hasPin

\* C8: a record created with a four-digit PIN p verifies for p and for no
\* other PIN and not for a request without a PIN; a record created without a
\* PIN verifies for every PIN and for none.
C8_PinRoundTrip ==
  (/\ res.op \in {"upload", "single"}
   /\ res.code = "created"
   /\ res.slug \in DOMAIN shares) =>
      \A p \in RequestPins \cup {Pin12} :
        validateSharePin(shares, res.slug, p)
          <=> (~Truthy(res.pin) \/ p = res.pin)

\* A record was created with the PIN 0000.
C8_Witness ==
  /\ res.code = "created"
  /\ res.pin = Pin0000
  /\ res.slug \in DOMAIN shares
  /\ Truthy(shares[res.slug].pin)

\* C9: whatever removes a record (the sweeper, the gate, the deferred
\* deletion, DELETE), after the step no record is stored under its slug and
\* none of the paths of its files is in the directory.
C9_DeletionComplete ==
  [][\A s \in DOMAIN shares :
       ~Kept(s) =>
          /\ s \notin DOMAIN shares'
          /\ Paths(shares[s]) \cap disk' = {}]_vars

\* The deferred deletion removed the record it was scheduled for.
C9_Witness ==
  /\ res.op = "timer"
  /\ res.id # 0
  /\ res.slug \notin DOMAIN shares
  /\ disk = {}

\* The string x is provided and the number it denotes is not in lo..hi.
OutOfRange(x, lo, hi) ==
  /\ x.t = "str"
  /\ x.v # << >>
  /\ LET d == ToNumber(x) IN
       \/ d.nan
       \/ d.neg /\ (d.ip > 0 \/ d.frac)
       \/ d.ip < lo
       \/ d.ip > hi
       \/ d.ip = hi /\ d.frac

\* C10: an upload request, on either endpoint, whose ttl is outside
\* 1..10080 or whose maxDownloads is outside 1..1000 is answered INVALID_TTL
\* or INVALID_MAX_DOWNLOADS and creates no record; no stored record has a
\* time to live or a maxDownloads outside these ranges.
C10_OutOfRangeRejected ==
  /\ (res.op \in {"upload", "single"} /\ OutOfRange(res.ttl, 1, 10080))
        => res.code = "INVALID_TTL"
  /\ (res.op \in {"upload", "single"} /\ OutOfRange(res.maxDownloads, 1, 1000))
        => res.code = "INVALID_MAX_DOWNLOADS"
  /\ \A s \in DOMAIN shares :
       /\ ~OutOfRange(shares[s].maxDownloads, 1, 1000)
       /\ shares[s].expiresAt.t = "num" =>
            /\ shares[s].expiresAt.v - shares[s].createdAt >= 1 * 60 * 1000
            /\ shares[s].expiresAt.v - shares[s].createdAt <= 10080 * 60 * 1000

\* C11: a download request against a stored, unexpired, non-exhausted record
\* with a PIN hash is answered PIN_REQUIRED when it carries no PIN and
\* INVALID_PIN when it carries a wrong one, both with status 401.
C11_PinErrorsDistinct ==
  [][\A s \in DOMAIN shares :
       (/\ DownloadOf(s)
        /\ Truthy(shares[s].pin)
        /\ ~PastExpiry(shares[s], now)
        /\ ~AtCap(shares[s])
        /\ ~RightPin(shares[s], res'.pin)) =>
          /\ res'.code = IF Truthy(res'.pin) THEN "INVALID_PIN" ELSE "PIN_REQUIRED"
          /\ Status(res'.code) = 401]_vars

\* C12: a download request that finds its record expired, or with maxDownloads
\* set and downloads >= maxDownloads, is answered SHARE_EXPIRED or
\* DOWNLOAD_LIMIT_REACHED, and in the state after the request the record is
\* not stored and none of its files is in the directory.
C12_ErrorCleansUp ==
  [][\A s \in DOMAIN shares :
       (DownloadOf(s) /\ (PastExpiry(shares[s], now) \/ AtCap(shares[s]))) =>
          /\ res'.code = IF PastExpiry(shares[s], now) THEN "SHARE_EXPIRED"
                         ELSE "DOWNLOAD_LIMIT_REACHED"
          /\ s \notin DOMAIN shares'
          /\ Paths(shares[s]) \cap disk' = {}]_vars

\* A download request found its record exhausted and removed it.
C12_Witness ==
  /\ res.op = "download"
  /\ res.code = "DOWNLOAD_LIMIT_REACHED"
  /\ res.id # 0
  /\ res.slug \notin DOMAIN shares
  /\ \E d \in spent : d.id = res.id /\ d.next = "DOWNLOAD_LIMIT_REACHED"

\* C13: a DELETE request against a stored record with a PIN hash that carries
\* no PIN or a wrong PIN is answered 401 and leaves the store (the record and
\* its download counter) and the directory as they were; a DELETE request
\* that removes a record carries the right PIN or the record has no PIN hash.
C13_DeleteAuthenticated ==
  [][\A s \in DOMAIN shares :
       (res'.op = "delete" /\ res'.slug = s) =>
          IF Truthy(shares[s].pin) /\ ~RightPin(shares[s], res'.pin)
          THEN /\ Status(res'.code) = 401
               /\ shares' = shares
               /\ disk' = disk
               /\ passed' = passed
          ELSE /\ res'.code = "deleted"
               /\ s \notin DOMAIN shares']_vars

\* A DELETE request with a wrong PIN was refused and the record is stored.
C13_Witness ==
  /\ res.op = "delete"
  /\ res.code = "PIN_REQUIRED"
  /\ Truthy(res.pin)
  /\ res.slug \in DOMAIN shares
  /\ shares[res.slug].id = res.id

\* The per-slug read routes.
ReadOps == {"info", "download", "stats", "qr", "qr_info"}

\* The response describes the share it addresses as available: a success
\* whose body does not say isExpired: true.
SaysAvailable(r) == Status(r.code) = 200 /\ r.isExpired # "true"

\* C14: a per-slug read handler (share info, download, stats, QR generation,
\* QR info) that addresses a stored record with now > expiresAt does not
\* answer with a success that describes the share as available.
C14_ReadsRecheckExpiry ==
  [][\A s \in DOMAIN shares :
       (res'.op \in ReadOps /\ res'.slug = s /\ PastExpiry(shares[s], now)) =>
          ~SaysAvailable(res')]_vars

\* C15: every stored record whose maxDownloads is set has
\* downloads <= maxDownloads.
C15_CounterWithinCap ==
  \A s \in DOMAIN shares :
    shares[s].maxDownloads.t = "str" =>
      LessEq(shares[s].downloads, shares[s].maxDownloads)

\* The operations that look a record up by its slug.
LookupOps == {"download", "delete", "info", "stats", "qr", "qr_info", "timer"}

\* The ids of the records that were created and are no longer stored.
Gone == {i \in 1..nextId : i \notin Ids(shares)}

\* C16: a record that has been removed from the store is never stored again,
\* no operation that looks a slug up finds it, and a record that enters the
\* store has an id no record had before and downloads = 0, also when it
\* takes the slug of a removed record.
C16_GoneIsTerminal ==
  [][/\ \A i \in Gone : i \notin Ids(shares')
     /\ res'.op \in LookupOps => res'.id \notin Gone
     /\ \A s \in DOMAIN shares' :
          shares'[s].id \notin Ids(shares) =>
             /\ shares'[s].id > nextId
             /\ shares'[s].downloads = 0]_vars

\* A record was created under the slug of a record that is gone.
C16_Witness ==
  /\ res.code = "created"
  /\ res.slug \in DOMAIN shares
  /\ shares[res.slug].id = res.id
  /\ \E d \in lapsed : d.slug = res.slug /\ d.id \in Gone

\* C17: the files of a record are deleted exactly once over its lifetime: a
\* step that keeps the record keeps its files, and the step that removes it
\* finds all of them in the directory and leaves none of them.
C17_FilesDeletedOnce ==
  [][\A s \in DOMAIN shares :
       IF Kept(s)
       THEN Paths(shares[s]) \cap disk' = Paths(shares[s]) \cap disk
       ELSE /\ Paths(shares[s]) \subseteq disk
            /\ Paths(shares[s]) \cap disk' = {}]_vars

\* C18: a sweep cycle leaves in the store no record that was stored at its
\* start with expiresAt set and now > expiresAt, and leaves none of the
\* files of such a record in the directory.
C18_SweepRemovesExpired ==
  [][res'.op = "sweep" =>
       \A s \in DOMAIN shares :
         PastExpiry(shares[s], now) =>
            /\ shares[s].id \notin Ids(shares')
            /\ Paths(shares[s]) \cap disk' = {}]_vars

\* A sweep cycle found a record whose expiry had passed, with its files in
\* the directory.
C18_Witness ==
  /\ res.op = "sweep"
  /\ res.code = "swept"
  /\ \E d \in lapsed : d.id \in Gone /\ d.slug \notin DOMAIN shares
  /\ disk = {}

\* The last value of the clock.
LastMs == StartMs + MaxTicks * TickMs

\* The record with id i is stored.
Stored(i) == i \in Ids(shares)

\* The record with id i.
RecordOf(i) == shares[CHOOSE s \in DOMAIN shares : shares[s].id = i]

\* The record with id i is stored with an expiresAt that the clock passes.
StoredWithTtl(i) ==
  /\ Stored(i)
  /\ RecordOf(i).expiresAt.t = "num"
  /\ RecordOf(i).expiresAt.v < LastMs

\* C19: when the clock, the sweeper and the timers are scheduled fairly, every
\* record created with a ttl is eventually removed from the store, whether
\* or not a request addresses its slug.
C19_TtlRecordRemoved ==
  \A i \in 1..LiveShares : StoredWithTtl(i) ~> ~Stored(i)

\* A sweep cycle at the last value of the clock removed a record with a ttl
\* that no download had been counted on.
C19_Witness ==
  /\ res.op = "sweep"
  /\ res.code = "swept"
  /\ now = LastMs
  /\ \E d \in lapsed : d.id \in Gone
  /\ spent = {}
  /\ shares = << >>

\* The record with id i is stored and an increment has brought its counter
\* to its cap.
Capped(i) ==
  /\ Stored(i)
  /\ RecordOf(i).downloads > 0
  /\ AtCap(RecordOf(i))

\* C20: the download that brings the counter of a record to its cap
\* schedules a deferred deletion of its slug; whatever removes a record
\* leaves none of its files; and when the timers are scheduled fairly a
\* record whose counter has reached its cap is eventually removed from the
\* store, whether or not a request addresses its slug.
C20_CapThenRemoved ==
  /\ [][\A s \in DOMAIN shares :
          /\ (PassedGate(s) /\ AtCap(shares'[s])) => timers' = Append(timers, s)
          /\ s \notin DOMAIN shares' => Paths(shares[s]) \cap disk' = {}]_vars
  /\ \A i \in 1..LiveShares : Capped(i) ~> ~Stored(i)

\* The deferred deletion removed a record that had reached its cap and that
\* no download request had addressed since, and left no file.
C20_Witness ==
  /\ res.op = "timer"
  /\ res.id \in Gone
  /\ \E d \in spent : d.id = res.id /\ d.next = "none"
  /\ res.slug \notin DOMAIN shares
  /\ disk = {}

\* The step is an upload that created a record.
Created == res'.code = "created"

\* C21: an upload whose customSlug is the slug of a stored record stores its
\* record under another slug, which held no record, and leaves the record
\* under the customSlug (files, PIN hash, counter, expiry) as it was.
C21_TakenSlugNotOverwritten ==
  [][(/\ Created
      /\ Truthy(res'.customSlug)
      /\ res'.customSlug.v \in DOMAIN shares) =>
        /\ res'.slug # res'.customSlug.v
        /\ res'.slug \notin DOMAIN shares
        /\ res'.slug \in DOMAIN shares'
        /\ shares'[res'.slug].id = res'.id
        /\ shares'[res'.customSlug.v] = shares[res'.customSlug.v]]_vars

\* A record was created with the customSlug of a stored record that has
\* been downloaded once; both are stored.
C21_Witness ==
  /\ res.code = "created"
  /\ Truthy(res.customSlug)
  /\ res.customSlug.v \in DOMAIN shares
  /\ res.slug # res.customSlug.v
  /\ shares[res.customSlug.v].id # res.id
  /\ shares[res.customSlug.v].downloads = 1
  /\ shares[res.slug].id = res.id

\* The slug reservation the claimed contract allows for the upload that
\* created a record.
ReservedAsSpecified ==
  IF /\ Truthy(res'.customSlug)
     /\ SlugPattern(res'.customSlug.v)
     /\ res'.customSlug.v \notin DOMAIN shares
  THEN res'.slug = res'.customSlug.v
  ELSE res'.slug \in Tokens /\ res'.slug \notin DOMAIN shares

\* C22: an upload with a customSlug that matches [A-Za-z0-9_-]+ and is the
\* slug of no stored record creates its record under that customSlug; any
\* other upload creates it under a generated token that was not a key of
\* the store; so every slug of the store is a customSlug that matches the
\* pattern or a generated token.
C22_SlugReservation ==
  [][/\ Created => ReservedAsSpecified
     /\ \A s \in DOMAIN shares' : SlugPattern(s)]_vars

\* The routes that call getShare or getAllShares and nothing else of the
\* model.
PureOps == {"stats", "qr_info", "list"}

\* C23: a request that only calls getShare or getAllShares leaves the store
\* (the slugs, every field of every record) and the files as they were;
\* getShare finds a stored record whether or not its expiry has passed, and
\* the list holds one summary for every stored record, the expired ones
\* included.
C23_LookupsArePure ==
  [][res'.op \in PureOps =>
       /\ shares' = shares
       /\ disk' = disk
       /\ timers' = timers
       /\ (res'.op # "list" /\ res'.slug \in DOMAIN shares) =>
             res'.code \in {"stats", "qr_info"} /\ res'.id = shares[res'.slug].id
       /\ res'.op = "list" =>
            /\ Cardinality(res'.list) = Cardinality(DOMAIN shares)
            /\ \A s \in DOMAIN shares :
                 \E x \in res'.list :
                   /\ x.summary.slug = s
                   /\ x.summary.downloads = shares[s].downloads
                   /\ x.summary.expiresAt = shares[s].expiresAt]_vars

\* The list holds two records, one of them past its expiry.
C23_Witness ==
  /\ res.op = "list"
  /\ Cardinality(res.list) = 2
  /\ \E x \in res.list : x.summary.expiresAt.t = "num" /\ now > x.summary.expiresAt.v
  /\ DOMAIN shares = {x.summary.slug : x \in res.list}

\* The step called deleteShare(slug) for the slug of its request: the
\* DELETE route past its PIN check, or the deferred deletion.
DeleteCall == res'.op \in {"delete", "timer"} /\ res'.code # "PIN_REQUIRED"

\* C24: deleteShare(slug) returns true exactly when a record was stored
\* under slug, and then removes that record; with no record under slug it
\* returns false and leaves the store and every file as they were; a record
\* under another slug is neither removed nor altered.
C24_DeleteShareResult ==
  [][\A slug \in RequestSlugs :
       LET del == deleteShare(shares, disk, slug) IN
       /\ del.ret = (slug \in DOMAIN shares)
       /\ slug \notin DOMAIN del.shares
       /\ ~del.ret => del.shares = shares /\ del.disk = disk
       /\ \A s \in DOMAIN shares \ {slug} :
            s \in DOMAIN del.shares /\ del.shares[s] = shares[s]
       /\ (DeleteCall /\ res'.slug = slug) =>
            /\ shares' = del.shares
            /\ disk' = del.disk
            /\ (res'.op = "delete") =>
                 res'.code = IF del.ret THEN "deleted" ELSE "SHARE_NOT_FOUND"]_vars

\* The deferred deletion called deleteShare for a slug without a record
\* while another record was stored: it returned false.
C24_Witness ==
  /\ res.op = "timer"
  /\ res.id = 0
  /\ res.slug \notin DOMAIN shares
  /\ shares # << >>

\* The step ran the deletion of the record under s: the sweeper found it
\* expired, the gate of the download, info or QR route found it expired or
\* exhausted, the deferred deletion fired for s, or DELETE passed its PIN
\* check.
DeletionOf(s) ==
  \/ res'.op = "sweep" /\ PastExpiry(shares[s], now)
  \/ res'.op \in {"info", "qr"} /\ res'.slug = s /\ PastExpiry(shares[s], now)
  \/ DownloadOf(s) /\ (PastExpiry(shares[s], now) \/ AtCap(shares[s]))
  \/ res'.op = "timer" /\ res'.slug = s
  \/ res'.op = "delete" /\ res'.slug = s /\ res'.code # "PIN_REQUIRED"

\* C25: when the unlink of a file of a record fails during its deletion, by
\* deleteShare or by the sweeper, the record is removed all the same, the
\* unlink of its other files has been done, and the step ends as it does
\* when no unlink fails.
C25_UnlinkFailureSwallowed ==
  [][\A s \in DOMAIN shares :
       DeletionOf(s) =>
          /\ s \notin DOMAIN shares'
          /\ \A p \in Paths(shares[s]) : p \in disk' <=> (p \in disk /\ Stuck(p))
          /\ res'.op = "delete" => res'.code = "deleted"
          /\ res'.code \notin {"DELETE_FAILED", "SERVER_ERROR"}]_vars

\* The sweeper removed a record of two files; the file it could not unlink
\* is left in the directory, the other is gone.
C25_Witness ==
  /\ res.op = "sweep"
  /\ res.code = "swept"
  /\ shares = << >>
  /\ \E p \in disk : Stuck(p)
  /\ Cardinality(disk) = 1

\* C26: no path is among the files of two stored records.
C26_PathsExclusive ==
  \A s1, s2 \in DOMAIN shares :
    s1 # s2 => Paths(shares[s1]) \cap Paths(shares[s2]) = {}

\* C27: a sweep cycle leaves in the store no record that was stored at its
\* start with maxDownloads set and downloads >= maxDownloads.
C27_SweepRemovesExhausted ==
  [][res'.op = "sweep" =>
       \A s \in DOMAIN shares :
         AtCap(shares[s]) => shares[s].id \notin Ids(shares')]_vars

\* C28: GET /share/:slug of the standalone server neither serves the files
\* nor raises the counter of a record whose expiresAt has passed.
C28_ServerExpiredNotServed ==
  [][\A s \in DOMAIN shares :
       (res'.op = "server_download" /\ res'.slug = s /\ PastExpiry(shares[s], now)) =>
          /\ res'.code # "served"
          /\ NotCounted(s)]_vars

\* C29: a record enters the store with downloads = 0, and a step that keeps
\* a record leaves its counter as it was or raises it by exactly one.
C29_CounterMonotone ==
  [][/\ \A s \in DOMAIN shares' :
          shares'[s].id \notin Ids(shares) => shares'[s].downloads = 0
     /\ \A s \in DOMAIN shares :
          Kept(s) =>
             /\ shares'[s].downloads \in {shares[s].downloads, shares[s].downloads + 1}
             /\ shares'[s].downloads >= 0]_vars

\* A second download has been counted on a record.
C29_Witness ==
  /\ res.op = "download"
  /\ res.code \in PassCodes
  /\ res.slug \in DOMAIN shares
  /\ shares[res.slug].id = res.id
  /\ shares[res.slug].downloads = 2
  /\ passed[res.id] = 2

\* The download request of the step addresses the record under s and meets
\* every condition of the gate: the record is unexpired, below its cap, and
\* has no PIN hash or the request carries the right PIN.
MeetsGate(s) ==
  /\ DownloadOf(s)
  /\ ~PastExpiry(shares[s], now)
  /\ ~AtCap(shares[s])
  /\ Truthy(shares[s].pin) => RightPin(shares[s], res'.pin)

C31_RecordFrame ==
  [][\A s \in DOMAIN shares :
       /\ s \in DOMAIN shares' =>
            /\ [shares'[s] EXCEPT !.downloads = shares[s].downloads] = shares[s]
            /\ shares'[s].downloads # shares[s].downloads => PassedGate(s)
       /\ \A s2 \in DOMAIN shares' : shares'[s2].id = shares[s].id => s2 = s]_vars

\* A download was counted on a stored record that has a PIN hash and an
\* expiry.
C31_Witness ==
  /\ res.op = "download"
  /\ res.code = "OK"
  /\ res.slug \in DOMAIN shares
  /\ shares[res.slug].id = res.id
  /\ shares[res.slug].downloads = 1
  /\ Truthy(shares[res.slug].pin)
  /\ shares[res.slug].expiresAt.t = "num"

\* The expiry the claimed contract gives a record created at time t with the
\* ttl field of the form: v is that many minutes after t.
ExpiryAsSpecified(ttl, t, v) ==
  LET d == ToNumber(ttl) IN
  /\ ~d.nan
  /\ ~d.neg
  /\ IF d.frac
     THEN v > t + d.ip * 60000 /\ v < t + (d.ip + 1) * 60000
     ELSE v = t + d.ip * 60000

\* C32: a record created without a ttl has no expiresAt; a record created
\* with a ttl has expiresAt = the clock at its creation + ttl * 60000 ms for
\* the ttl the caller supplied, and is not expired at its creation.
C32_ExpiryFromTtl ==
  [][Created =>
       LET share == shares'[res'.slug] IN
       IF ~Truthy(res'.ttl)
       THEN share.expiresAt = Null
       ELSE /\ share.expiresAt.t = "num"
            /\ ExpiryAsSpecified(res'.ttl, now, share.expiresAt.v)
            /\ ~PastExpiry(share, now)]_vars

\* C33: the in-archive names of the files a multi-file download adds to its
\* archive are pairwise distinct, whatever the original names.
C33_ArchiveNamesDistinct ==
  res.op = "download" =>
    \A x, y \in res.list : x.index # y.index => x.name # y.name

\* C34: the deferred deletion removes only the record that scheduled it: a
\* timer that fires never removes a record whose counter has not reached its
\* cap, such as a new share created under the slug of the capped one.
C34_TimerRemovesOnlyItsRecord ==
  [][res'.op = "timer" =>
       \A s \in DOMAIN shares \ DOMAIN shares' : AtCap(shares[s])]_vars

\* C35: an upload is all-or-nothing: when an upload request is answered with
\* an error, no record created by that request is in the store.
C35_FailedUploadLeavesNoRecord ==
  [][res'.op \in {"upload", "single"} /\ res'.code = "UPLOAD_FAILED" =>
       res'.id \notin Ids(shares')]_vars

\* C36: a download answered FILE_NOT_FOUND or NO_FILES_FOUND does not consume
\* a download: the counter of the record is unchanged and no deferred
\* deletion is scheduled.
C36_MissingFileNotCounted ==
  [][res'.op = "download" /\ res'.code \in {"FILE_NOT_FOUND", "NO_FILES_FOUND"} =>
       /\ NotCounted(res'.slug)
       /\ timers' = timers]_vars

\* C37: a download request answered SHARE_NOT_FOUND or INVALID_PIN leaves the
\* registry as it was: no record is added or removed, no counter changes, no
\* deferred deletion is scheduled and no file is deleted.
C37_RefusedDownloadChangesNothing ==
  [][res'.op = "download" /\ res'.code \in {"SHARE_NOT_FOUND", "INVALID_PIN"} =>
       /\ shares' = shares
       /\ timers' = timers
       /\ disk' = disk]_vars

\* A download was answered INVALID_PIN for a stored share with a PIN and a
\* cap, whose counter is still 0.
C37_Witness ==
  /\ res.op = "download"
  /\ res.code = "INVALID_PIN"
  /\ res.slug \in DOMAIN shares
  /\ Truthy(shares[res.slug].pin)
  /\ Truthy(shares[res.slug].maxDownloads)
  /\ shares[res.slug].downloads = 0
  /\ disk # {}

\* C38: no orphan files: when an upload request completes, with 201 or with
\* a validation error, every file it wrote is owned by a stored record or has
\* been deleted, so the step adds no file that nothing owns.
C38_UploadLeavesNoOrphan ==
  [][/\ res'.op \in {"upload", "single"}
     /\ res'.code \in {"201", "INVALID_PIN_FORMAT", "INVALID_TTL",
                       "INVALID_MAX_DOWNLOADS"}
     => Orphans(disk', shares', inflight') \subseteq Orphans(disk, shares, inflight)]_vars

\* C39: a sweep cycle removes only expired records: a record without
\* expiresAt, or with now <= expiresAt, stays stored with every field as it
\* was and with its files on disk, whatever its download count.
C39_SweepSparesLiveRecords ==
  [][res'.op = "sweep" =>
       \A s \in DOMAIN shares :
         ~PastExpiry(shares[s], now) =>
           /\ s \in DOMAIN shares'
           /\ shares'[s] = shares[s]
           /\ Paths(shares[s]) \cap disk \subseteq disk']_vars

=============================================================================
